---- MODULE Spec2Model ----
(***************************************************************************)
(* The az_event_registration ink! contract (src/lib.rs) as a state         *)
(* machine.  The contract storage is {admin, deadline, registrations};     *)
(* the environment supplies the caller, the block timestamp and receives   *)
(* the emitted events.  Every message is one atomic step.                  *)
(***************************************************************************)
EXTENDS Integers, Sequences, FiniteSets, TLC

\* ---- bounds ----
MaxTime == 1
MaxEvents == 2

\* ---- environment ----
\* AccountIds that call the contract (two of the test accounts: every check in
\* the contract compares the caller with one other identity)
Accounts == {"alice", "bob"}
Timestamps == 0..MaxTime

\* Option<T>: None is the empty sequence, Some(x) the one-element sequence.
None == <<>>
Some(x) == <<x>>
OptionAccountId == {None} \cup {Some(a) : a \in Accounts}

\* Result<T>: Ok carries an Option-shaped payload, Err carries the error.
Ok(v) == [tag |-> "Ok", err |-> "", val |-> v]
Err(e) == [tag |-> "Err", err |-> e, val |-> None]
Unit == Some("()")

\* AzEventRegistrationError values produced by the contract
NotFound == "NotFound(Registration)"
Unauthorised == "Unauthorised"
Closed == "UnprocessableEntity(Registration is now closed)"
SelfReferral == "UnprocessableEntity(Registrant and referrer must be different)"
AlreadyExists == "UnprocessableEntity(Registration already exists)"

\* struct Registration
Registration == [address : Accounts, referrer : OptionAccountId]

\* ink::storage::Mapping<AccountId, Registration> as a partial function
MappingGet(m, k) == IF k \in DOMAIN m THEN Some(m[k]) ELSE None
MappingInsert(m, k, v) == [x \in (DOMAIN m) \cup {k} |-> IF x = k THEN v ELSE m[x]]
MappingRemove(m, k) == [x \in (DOMAIN m) \ {k} |-> m[x]]
MappingDefault == [x \in {} |-> [address |-> "alice", referrer |-> None]]

\* outcome of a message: new storage, returned value, events emitted
Outcome(s, r, ev) == [self |-> s, result |-> r, emitted |-> ev]

VARIABLES admin, deadline, registrations, block_timestamp, events, call, result

vars == <<admin, deadline, registrations, block_timestamp, events, call, result>>

\* struct AzEventRegistration (the storage) as one value
Storage == [admin |-> admin, deadline |-> deadline, registrations |-> registrations]

\* constructor
new(caller, deadline_arg) ==
    [admin |-> caller, deadline |-> deadline_arg, registrations |-> MappingDefault]

\* fn config(&self) -> Config
config(self) == [admin |-> self.admin, deadline |-> self.deadline]

\* fn show(&self, address) -> Result<Registration>
show(self, address) ==
    LET got == MappingGet(self.registrations, address)
    IN IF got = None THEN Err(NotFound) ELSE Ok(got)

\* fn authorise(allowed, received) -> Result<()>
authorise_always(allowed, received) == Ok(Unit)

authorise(allowed, received) ==
    IF allowed # received THEN Err(Unauthorised) ELSE Ok(Unit)

\* fn destroy(&mut self) -> Result<()>
destroy_all(self, caller) ==
    LET shown == show(self, caller)
    IN IF shown.tag = "Err"
       THEN Outcome(self, shown, <<>>)
       ELSE Outcome([self EXCEPT !.registrations = MappingDefault], Ok(Unit), <<>>)

destroy_closed(self, caller) ==
    LET shown == show(self, caller)
    IN IF block_timestamp > self.deadline THEN Outcome(self, Err(Closed), <<>>)
       ELSE IF shown.tag = "Err" THEN Outcome(self, shown, <<>>)
       ELSE Outcome([self EXCEPT !.registrations = MappingRemove(@, caller)],
                    Ok(Unit), <<>>)

destroy_idempotent(self, caller) ==
    Outcome([self EXCEPT !.registrations = MappingRemove(@, caller)], Ok(Unit), <<>>)

destroy_emits(self, caller) ==
    LET shown == show(self, caller)
    IN IF shown.tag = "Err"
       THEN Outcome(self, shown, <<>>)
       ELSE Outcome([self EXCEPT !.registrations = MappingRemove(@, caller)],
                    Ok(Unit),
                    <<[kind |-> "Update", address |-> caller, referrer |-> None]>>)

destroy(self, caller) ==
    LET shown == show(self, caller)
    IN IF shown.tag = "Err"
       THEN Outcome(self, shown, <<>>)
       ELSE Outcome([self EXCEPT !.registrations = MappingRemove(@, caller)],
                    Ok(Unit), <<>>)

\* fn register(&mut self, referrer) -> Result<Registration>
register_no_deadline(self, caller, now, referrer) ==
    IF referrer # None /\ referrer[1] = caller
    THEN Outcome(self, Err(SelfReferral), <<>>)
    ELSE IF MappingGet(self.registrations, caller) # None
         THEN Outcome(self, Err(AlreadyExists), <<>>)
    ELSE LET registration == [address |-> caller, referrer |-> referrer]
         IN Outcome([self EXCEPT !.registrations = MappingInsert(@, caller, registration)],
                    Ok(Some(registration)),
                    <<[kind |-> "Register", address |-> caller, referrer |-> referrer]>>)

register_requires_referrer(self, caller, now, referrer) ==
    IF now > self.deadline THEN Outcome(self, Err(Closed), <<>>)
    ELSE IF referrer # None /\ referrer[1] = caller
         THEN Outcome(self, Err(SelfReferral), <<>>)
    ELSE IF referrer # None /\ MappingGet(self.registrations, referrer[1]) = None
         THEN Outcome(self, Err(NotFound), <<>>)
    ELSE IF MappingGet(self.registrations, caller) # None
         THEN Outcome(self, Err(AlreadyExists), <<>>)
    ELSE LET registration == [address |-> caller, referrer |-> referrer]
         IN Outcome([self EXCEPT !.registrations = MappingInsert(@, caller, registration)],
                    Ok(Some(registration)),
                    <<[kind |-> "Register", address |-> caller, referrer |-> referrer]>>)

register_drops_referrer(self, caller, now, referrer) ==
    IF now > self.deadline THEN Outcome(self, Err(Closed), <<>>)
    ELSE IF referrer # None /\ referrer[1] = caller
         THEN Outcome(self, Err(SelfReferral), <<>>)
    ELSE IF MappingGet(self.registrations, caller) # None
         THEN Outcome(self, Err(AlreadyExists), <<>>)
    ELSE LET registration == [address |-> caller, referrer |-> referrer]
         IN Outcome([self EXCEPT !.registrations =
                        MappingInsert(@, caller, [registration EXCEPT !.referrer = None])],
                    Ok(Some(registration)),
                    <<[kind |-> "Register", address |-> caller, referrer |-> referrer]>>)

register_inclusive(self, caller, now, referrer) ==
    IF now >= self.deadline THEN Outcome(self, Err(Closed), <<>>)
    ELSE IF referrer # None /\ referrer[1] = caller
         THEN Outcome(self, Err(SelfReferral), <<>>)
    ELSE IF MappingGet(self.registrations, caller) # None
         THEN Outcome(self, Err(AlreadyExists), <<>>)
    ELSE LET registration == [address |-> caller, referrer |-> referrer]
         IN Outcome([self EXCEPT !.registrations = MappingInsert(@, caller, registration)],
                    Ok(Some(registration)),
                    <<[kind |-> "Register", address |-> caller, referrer |-> referrer]>>)

register_no_self_check(self, caller, now, referrer) ==
    IF now > self.deadline THEN Outcome(self, Err(Closed), <<>>)
    ELSE IF MappingGet(self.registrations, caller) # None
         THEN Outcome(self, Err(AlreadyExists), <<>>)
    ELSE LET registration == [address |-> caller, referrer |-> referrer]
         IN Outcome([self EXCEPT !.registrations = MappingInsert(@, caller, registration)],
                    Ok(Some(registration)),
                    <<[kind |-> "Register", address |-> caller, referrer |-> referrer]>>)

register_no_dup_check(self, caller, now, referrer) ==
    IF now > self.deadline THEN Outcome(self, Err(Closed), <<>>)
    ELSE IF referrer # None /\ referrer[1] = caller
         THEN Outcome(self, Err(SelfReferral), <<>>)
    ELSE LET registration == [address |-> caller, referrer |-> referrer]
         IN Outcome([self EXCEPT !.registrations = MappingInsert(@, caller, registration)],
                    Ok(Some(registration)),
                    <<[kind |-> "Register", address |-> caller, referrer |-> referrer]>>)

register_dup_first(self, caller, now, referrer) ==
    IF MappingGet(self.registrations, caller) # None
    THEN Outcome(self, Err(AlreadyExists), <<>>)
    ELSE IF now > self.deadline THEN Outcome(self, Err(Closed), <<>>)
    ELSE IF referrer # None /\ referrer[1] = caller
         THEN Outcome(self, Err(SelfReferral), <<>>)
    ELSE LET registration == [address |-> caller, referrer |-> referrer]
         IN Outcome([self EXCEPT !.registrations = MappingInsert(@, caller, registration)],
                    Ok(Some(registration)),
                    <<[kind |-> "Register", address |-> caller, referrer |-> referrer]>>)

register(self, caller, now, referrer) ==
    IF now > self.deadline THEN Outcome(self, Err(Closed), <<>>)
    ELSE IF referrer # None /\ referrer[1] = caller
         THEN Outcome(self, Err(SelfReferral), <<>>)
    ELSE IF MappingGet(self.registrations, caller) # None
         THEN Outcome(self, Err(AlreadyExists), <<>>)
    ELSE LET registration == [address |-> caller, referrer |-> referrer]
         IN Outcome([self EXCEPT !.registrations = MappingInsert(@, caller, registration)],
                    Ok(Some(registration)),
                    <<[kind |-> "Register", address |-> caller, referrer |-> referrer]>>)

\* fn update(&mut self, referrer) -> Result<Registration>
update_ignores_referrer(self, caller, referrer) ==
    LET shown == show(self, caller)
    IN IF shown.tag = "Err" THEN Outcome(self, shown, <<>>)
       ELSE LET registration == shown.val[1]
            IN Outcome([self EXCEPT !.registrations = MappingInsert(@, caller, registration)],
                       Ok(Some(registration)),
                       <<[kind |-> "Update", address |-> caller, referrer |-> referrer]>>)

update_upserts(self, caller, referrer) ==
    LET registration == [address |-> caller, referrer |-> referrer]
    IN Outcome([self EXCEPT !.registrations = MappingInsert(@, caller, registration)],
               Ok(Some(registration)),
               <<[kind |-> "Update", address |-> caller, referrer |-> referrer]>>)

update_rejects_self(self, caller, referrer) ==
    LET shown == show(self, caller)
    IN IF shown.tag = "Err" THEN Outcome(self, shown, <<>>)
       ELSE IF referrer # None /\ referrer[1] = caller
            THEN Outcome(self, Err(SelfReferral), <<>>)
       ELSE LET registration == [shown.val[1] EXCEPT !.referrer = referrer]
            IN Outcome([self EXCEPT !.registrations = MappingInsert(@, caller, registration)],
                       Ok(Some(registration)),
                       <<[kind |-> "Update", address |-> caller, referrer |-> referrer]>>)

update(self, caller, referrer) ==
    LET shown == show(self, caller)
    IN IF shown.tag = "Err" THEN Outcome(self, shown, <<>>)
       ELSE LET registration == [shown.val[1] EXCEPT !.referrer = referrer]
            IN Outcome([self EXCEPT !.registrations = MappingInsert(@, caller, registration)],
                       Ok(Some(registration)),
                       <<[kind |-> "Update", address |-> caller, referrer |-> referrer]>>)

\* fn update_config(&mut self, deadline) -> Result<()>
update_config_rejects_past(self, caller, deadline_arg) ==
    LET auth == authorise(caller, self.admin)
    IN IF auth.tag = "Err" \/ deadline_arg < block_timestamp
       THEN Outcome(self, Err(Unauthorised), <<>>)
       ELSE Outcome([self EXCEPT !.deadline = deadline_arg], Ok(Unit), <<>>)

update_config_takes_admin(self, caller, deadline_arg) ==
    Outcome([self EXCEPT !.deadline = deadline_arg, !.admin = caller], Ok(Unit), <<>>)

update_config_write_first(self, caller, deadline_arg) ==
    LET auth == authorise(caller, self.admin)
    IN IF auth.tag = "Err"
       THEN Outcome([self EXCEPT !.deadline = deadline_arg], auth, <<>>)
       ELSE Outcome([self EXCEPT !.deadline = deadline_arg], Ok(Unit), <<>>)

update_config(self, caller, deadline_arg) ==
    LET auth == authorise(caller, self.admin)
    IN IF auth.tag = "Err"
       THEN Outcome(self, auth, <<>>)
       ELSE Outcome([self EXCEPT !.deadline = deadline_arg], Ok(Unit), <<>>)

\* ---- the state machine ----
NoCall == [op |-> "new", caller |-> "alice", referrer |-> None, deadline |-> 0,
           address |-> "alice"]
CallOf(op, caller, referrer, deadline_arg, address) ==
    [op |-> op, caller |-> caller, referrer |-> referrer, deadline |-> deadline_arg,
     address |-> address]

Init ==
    \E caller \in Accounts, deadline_arg \in Timestamps :
        LET s == new(caller, deadline_arg)
        IN /\ admin = s.admin
           /\ deadline = s.deadline
           /\ registrations = s.registrations
           /\ block_timestamp = 0
           /\ events = <<>>
           /\ call = [NoCall EXCEPT !.caller = caller, !.deadline = deadline_arg]
           /\ result = Ok(Unit)

\* a message's outcome is committed: storage, the event log and the reply
Commit(out) ==
    /\ Len(events) + Len(out.emitted) <= MaxEvents
    /\ admin' = out.self.admin
    /\ deadline' = out.self.deadline
    /\ registrations' = out.self.registrations
    /\ events' = events \o out.emitted
    /\ result' = out.result
    /\ UNCHANGED block_timestamp

\* config and show take &self and never read the caller
Config ==
    /\ call' = CallOf("config", "alice", None, 0, "alice")
    /\ result' = Ok(Some(config(Storage)))
    /\ UNCHANGED <<admin, deadline, registrations, block_timestamp, events>>

Show ==
    \E address \in Accounts :
        /\ call' = CallOf("show", "alice", None, 0, address)
        /\ Commit(Outcome(Storage, show(Storage, address), <<>>))

Destroy ==
    \E caller \in Accounts :
        /\ call' = CallOf("destroy", caller, None, 0, caller)
        /\ Commit(destroy(Storage, caller))

Register ==
    \E caller \in Accounts, referrer \in OptionAccountId :
        /\ call' = CallOf("register", caller, referrer, 0, caller)
        /\ Commit(register(Storage, caller, block_timestamp, referrer))

Update ==
    \E caller \in Accounts, referrer \in OptionAccountId :
        /\ call' = CallOf("update", caller, referrer, 0, caller)
        /\ Commit(update(Storage, caller, referrer))

UpdateConfig ==
    \E caller \in Accounts, deadline_arg \in Timestamps :
        /\ call' = CallOf("update_config", caller, None, deadline_arg, caller)
        /\ Commit(update_config(Storage, caller, deadline_arg))

\* the chain produces a later block
NextBlock ==
    /\ block_timestamp < MaxTime
    /\ block_timestamp' = block_timestamp + 1
    /\ UNCHANGED <<admin, deadline, registrations, events, call, result>>

Next ==
    \/ Config
    \/ Show
    \/ Destroy
    \/ Register
    \/ Update
    \/ UpdateConfig
    \/ NextBlock

Spec == Init /\ [][Next]_vars

TypeOK ==
    /\ admin \in Accounts
    /\ deadline \in Timestamps
    /\ block_timestamp \in Timestamps
    /\ DOMAIN registrations \subseteq Accounts
    /\ \A k \in DOMAIN registrations : registrations[k] \in Registration
    /\ Len(events) <= MaxEvents

\* ---- properties ----

\* a step that is the message `op` (NextBlock is the only step that moves the clock)
Step(op) == block_timestamp' = block_timestamp /\ call'.op = op
Registered(a) == a \in DOMAIN registrations

\* C1: every stored Registration has referrer # Some(address) (no self-referral).
\* update stores any referrer without the check register makes, so this fails.
C1_NoSelfReferral ==
    \A k \in DOMAIN registrations :
        registrations[k].referrer # Some(registrations[k].address)

\* C2 (as stated): a register by an identity that already has a record always
\* fails with the duplicate error, whatever the referrer, time and deadline.
C2_DuplicateWhatever ==
    [][Step("register") /\ Registered(call'.caller)
        => result' = Err(AlreadyExists)]_vars

\* C2 (amended): a register by an identity that already has a record always
\* fails and keeps the record; the error is the duplicate error when the
\* window is open and the referrer is not the caller, the closed error when
\* block_timestamp > deadline, and the self-referral error otherwise.
C2_Uniqueness ==
    [][Step("register") /\ Registered(call'.caller)
        => /\ result'.tag = "Err"
           /\ registrations' = registrations
           /\ result'.err =
                 IF block_timestamp > deadline THEN Closed
                 ELSE IF call'.referrer = Some(call'.caller) THEN SelfReferral
                 ELSE AlreadyExists]_vars

C2_Witness ==
    /\ call.op = "register"
    /\ Registered(call.caller)
    /\ result = Err(AlreadyExists)

\* C3: register at block_timestamp > deadline fails with the closed error for
\* every caller, referrer and store; at block_timestamp <= deadline it never does.
C3_DeadlineGate ==
    [][Step("register")
        => (result' = Err(Closed) <=> block_timestamp > deadline)]_vars

C3_Witness ==
    /\ call.op = "register"
    /\ block_timestamp = deadline
    /\ result.tag = "Ok"

\* C4: register by i with referrer Some(i) always returns an error and leaves
\* the registrations unchanged, whether or not i is registered, at any time.
C4_SelfReferralBan ==
    [][Step("register") /\ call'.referrer = Some(call'.caller)
        => result'.tag = "Err" /\ registrations' = registrations]_vars

C4_Witness ==
    /\ call.op = "register"
    /\ call.referrer = Some(call.caller)
    /\ ~Registered(call.caller)
    /\ block_timestamp <= deadline
    /\ result = Err(SelfReferral)

\* C5: register validates deadline, then self-referral, then duplicate, and
\* returns the first applicable error.
C5_ValidationOrder ==
    [][Step("register")
        => /\ block_timestamp > deadline => result' = Err(Closed)
           /\ (block_timestamp <= deadline /\ call'.referrer = Some(call'.caller))
                 => result' = Err(SelfReferral)
           /\ (/\ block_timestamp <= deadline
               /\ call'.referrer # Some(call'.caller)
               /\ Registered(call'.caller))
                 => result' = Err(AlreadyExists)]_vars

C5_Witness ==
    /\ call.op = "register"
    /\ call.referrer = Some(call.caller)
    /\ Registered(call.caller)
    /\ block_timestamp <= deadline
    /\ result = Err(SelfReferral)

\* C6: update_config succeeds iff the caller is admin; on success deadline is
\* the new deadline, otherwise the result is Unauthorised and deadline, admin
\* and the registrations are unchanged.
C6_Authorization ==
    [][Step("update_config")
        => /\ result'.tag = "Ok" <=> call'.caller = admin
           /\ call'.caller = admin
                 => result' = Ok(Unit) /\ deadline' = call'.deadline
           /\ call'.caller # admin
                 => /\ result' = Err(Unauthorised)
                    /\ UNCHANGED <<deadline, admin, registrations>>]_vars

C6_Witness ==
    /\ call.op = "update_config"
    /\ call.caller # admin
    /\ call.deadline # deadline
    /\ result = Err(Unauthorised)

\* C7: update by i fails with NotFound iff i has no record at call time; when
\* i has a record update succeeds for every referrer and timestamp.
C7_UpdateRequiresExistence ==
    [][Step("update")
        => /\ result' = Err(NotFound) <=> ~Registered(call'.caller)
           /\ Registered(call'.caller) => result'.tag = "Ok"]_vars

C7_Witness ==
    /\ call.op = "update"
    /\ call.referrer = Some(call.caller)
    /\ block_timestamp > deadline
    /\ result.tag = "Ok"

\* C8: after a successful destroy by i, show(i) fails with NotFound and an
\* immediately repeated destroy by i fails with NotFound; destroy by an
\* identity with no record fails with NotFound and changes nothing.
C8_DestroyNotIdempotent ==
    [][Step("destroy")
        => /\ result'.tag = "Ok"
                 => /\ Registered(call'.caller)
                    /\ show(Storage', call'.caller) = Err(NotFound)
           /\ ~Registered(call'.caller)
                 => /\ result' = Err(NotFound)
                    /\ UNCHANGED <<admin, deadline, registrations, events>>
           /\ (call.op = "destroy" /\ result.tag = "Ok" /\ call'.caller = call.caller)
                 => result' = Err(NotFound)]_vars

C8_Witness ==
    /\ call.op = "destroy"
    /\ result = Ok(Unit)
    /\ ~Registered(call.caller)
    /\ events # <<>>

\* C9: a register, update, destroy or update_config that returns an error
\* leaves admin, deadline, the registrations and the event log unchanged.
C9_AllOrNothing ==
    [][(/\ block_timestamp' = block_timestamp
        /\ call'.op \in {"register", "update", "destroy", "update_config"}
        /\ result'.tag = "Err")
        => UNCHANGED <<admin, deadline, registrations, events>>]_vars

C9_Witness ==
    /\ call.op = "update_config"
    /\ result.tag = "Err"
    /\ call.deadline # deadline
    /\ registrations # MappingDefault

\* C10: a successful register appends exactly one Register event and a
\* successful update exactly one Update event, with the address and referrer
\* of the record that call stored; every other call appends nothing.
EventOf(kind, registration) ==
    [kind |-> kind, address |-> registration.address,
     referrer |-> registration.referrer]

C10_EventEmission ==
    [][block_timestamp' = block_timestamp
        => IF call'.op \in {"register", "update"} /\ result'.tag = "Ok"
           THEN /\ call'.caller \in DOMAIN registrations'
                /\ events' = Append(events,
                       EventOf(IF call'.op = "register" THEN "Register" ELSE "Update",
                               registrations'[call'.caller]))
                /\ events'[Len(events')].address = call'.caller
                /\ events'[Len(events')].referrer = call'.referrer
           ELSE events' = events]_vars

C10_Witness ==
    /\ call.op = "update"
    /\ result.tag = "Ok"
    /\ Len(events) = 2
    /\ events[1].kind = "Register"
    /\ events[2] = EventOf("Update", registrations[call.caller])

\* C11: admin is the identity that called the constructor and no call changes
\* it; deadline changes only by a successful update_config, to its argument;
\* config() returns the current admin and deadline.
C11_AdminFixed ==
    /\ call.op = "new" /\ admin = call.caller /\ deadline = call.deadline
    /\ [][/\ admin' = admin
          /\ deadline' # deadline
                => /\ Step("update_config")
                   /\ result'.tag = "Ok"
                   /\ deadline' = call'.deadline
          /\ Step("config")
                => result' = Ok(Some([admin |-> admin, deadline |-> deadline]))]_vars

C11_Witness ==
    /\ call.op = "config"
    /\ result = Ok(Some([admin |-> admin, deadline |-> deadline]))
    /\ registrations # MappingDefault
    /\ admin \notin DOMAIN registrations

\* C12: identity i becomes registered only by a successful register called by
\* i and becomes absent only by a successful destroy called by i; update keeps
\* i registered; after a successful destroy i can register again.
C12_Lifecycle ==
    [][/\ \A i \in Accounts :
            /\ (~Registered(i) /\ i \in DOMAIN registrations')
                  => Step("register") /\ call'.caller = i /\ result'.tag = "Ok"
            /\ (Registered(i) /\ i \notin DOMAIN registrations')
                  => Step("destroy") /\ call'.caller = i /\ result'.tag = "Ok"
       /\ (Step("update") /\ Registered(call'.caller))
             => call'.caller \in DOMAIN registrations'
       /\ (Step("destroy") /\ result'.tag = "Ok")
             => \A t \in Timestamps, r \in OptionAccountId :
                   (t <= deadline' /\ r # Some(call'.caller))
                      => register(Storage', call'.caller, t, r).result.tag = "Ok"]_vars

C12_Witness ==
    /\ call.op = "register"
    /\ result.tag = "Ok"
    /\ Len(events) = 2
    /\ events[1].kind = "Register"
    /\ events[1].address = call.caller

\* C13: with a record, update and destroy succeed at any block timestamp, also
\* after the deadline; a later block or a moved deadline alters no record.
C13_ExpiryGatesRegisterOnly ==
    [][/\ ((Step("update") \/ Step("destroy")) /\ Registered(call'.caller))
             => result'.tag = "Ok"
       /\ (block_timestamp' # block_timestamp \/ Step("update_config"))
             => registrations' = registrations]_vars

C13_Witness ==
    /\ call.op = "destroy"
    /\ result.tag = "Ok"
    /\ block_timestamp > deadline
    /\ registrations # MappingDefault

\* C14: the record stored under key k has address k; a successful update by c
\* with referrer r returns and stores exactly {address: c, referrer: r}.
C14_KeyAddressAgreement ==
    /\ \A k \in DOMAIN registrations : registrations[k].address = k
    /\ (call.op = "update" /\ result.tag = "Ok")
          => /\ result.val = Some([address |-> call.caller, referrer |-> call.referrer])
             /\ Registered(call.caller)
             /\ Some(registrations[call.caller]) = result.val

C14_Witness ==
    /\ call.op = "update"
    /\ result.tag = "Ok"
    /\ call.referrer = None
    /\ Len(events) = 2
    /\ events[1].address = call.caller
    /\ events[1].referrer # None
    /\ registrations[call.caller].referrer = None

\* C15: a successful register by c with referrer r returns {address: c,
\* referrer: r} and show(c) returns that record until the next successful
\* update or destroy by c; show(i) returns NotFound exactly when i has no
\* record and changes nothing.
C15_RegisterShowRoundTrip ==
    [][/\ (Step("register") /\ result'.tag = "Ok")
             => /\ result' = Ok(Some([address |-> call'.caller,
                                      referrer |-> call'.referrer]))
                /\ show(Storage', call'.caller) = result'
       /\ \A i \in Accounts :
             (Registered(i) /\ show(Storage', i) # show(Storage, i))
                => /\ Step("update") \/ Step("destroy")
                   /\ call'.caller = i
                   /\ result'.tag = "Ok"
       /\ Step("show")
             => /\ result' = show(Storage, call'.address)
                /\ result' = Err(NotFound) <=> ~Registered(call'.address)
                /\ Registered(call'.address)
                      => result' = Ok(Some(registrations[call'.address]))
                /\ UNCHANGED <<admin, deadline, registrations, events>>]_vars

C15_Witness ==
    /\ call.op = "show"
    /\ result.tag = "Ok"
    /\ result.val[1].referrer # None
    /\ result.val[1].address = call.address
    /\ events = <<[kind |-> "Register", address |-> call.address,
                   referrer |-> result.val[1].referrer]>>

\* C16: the admin's update_config succeeds for every new deadline, also one
\* before the current time; with deadline < now every register returns the
\* closed error, and with deadline >= now a register by an unregistered
\* caller with a different referrer succeeds.
C16_DeadlineUnvalidated ==
    [][(Step("update_config") /\ call'.caller = admin)
        => /\ result' = Ok(Unit)
           /\ deadline' = call'.deadline
           /\ \A c \in Accounts, r \in OptionAccountId :
                 LET out == register(Storage', c, block_timestamp', r)
                 IN /\ deadline' < block_timestamp' => out.result = Err(Closed)
                    /\ (/\ deadline' >= block_timestamp'
                        /\ c \notin DOMAIN registrations'
                        /\ r # Some(c))
                          => /\ out.result.tag = "Ok"
                             /\ c \in DOMAIN out.self.registrations]_vars

C16_Witness ==
    /\ call.op = "update_config"
    /\ result = Ok(Unit)
    /\ call.deadline < block_timestamp
    /\ deadline = call.deadline

\* the storage as caller c's message may see it: only c's own entry
OnlyEntry(self, c) ==
    [self EXCEPT !.registrations = [k \in (DOMAIN @) \cap {c} |-> @[k]]]

\* C17: register, update and destroy by c write only the entry keyed by c and
\* their result depends on no other entry; the other records, admin and
\* deadline are unchanged.  update_config changes only deadline.
C17_Frame ==
    [][/\ (Step("register") \/ Step("update") \/ Step("destroy"))
             => /\ \A k \in Accounts \ {call'.caller} :
                      MappingGet(registrations', k) = MappingGet(registrations, k)
                /\ UNCHANGED <<admin, deadline>>
       /\ Step("register")
             => result' = register(OnlyEntry(Storage, call'.caller), call'.caller,
                                   block_timestamp, call'.referrer).result
       /\ Step("update")
             => result' = update(OnlyEntry(Storage, call'.caller), call'.caller,
                                 call'.referrer).result
       /\ Step("destroy")
             => result' = destroy(OnlyEntry(Storage, call'.caller), call'.caller).result
       /\ Step("update_config")
             => UNCHANGED <<admin, registrations, events>>]_vars

C17_Witness ==
    /\ call.op = "destroy"
    /\ result.tag = "Ok"
    /\ ~Registered(call.caller)
    /\ \E k \in DOMAIN registrations : registrations[k].referrer = None

\* C18: block timestamps never decrease, and while block_timestamp > deadline
\* every step other than a successful update_config keeps the window closed
\* and adds no identity to the registered set.
C18_ClosedWindowMonotone ==
    [][/\ block_timestamp' >= block_timestamp
       /\ (/\ block_timestamp > deadline
           /\ ~(Step("update_config") /\ result'.tag = "Ok"))
             => /\ block_timestamp' > deadline'
                /\ DOMAIN registrations' \subseteq DOMAIN registrations]_vars

C18_Witness ==
    /\ call.op = "register"
    /\ result = Err(Closed)
    /\ ~Registered(call.caller)
    /\ call.referrer # Some(call.caller)
    /\ registrations # MappingDefault

\* C19: register and update by c with referrer Some(r), r # c, succeed whether
\* or not r has a record, and a successful destroy by r leaves every record
\* naming r as referrer unchanged.
C19_ReferrerNeverChecked ==
    [][/\ (/\ Step("register")
           /\ call'.referrer \notin {None, Some(call'.caller)}
           /\ block_timestamp <= deadline
           /\ ~Registered(call'.caller))
             => result'.tag = "Ok"
       /\ (/\ Step("update")
           /\ call'.referrer \notin {None, Some(call'.caller)}
           /\ Registered(call'.caller))
             => result'.tag = "Ok"
       /\ (Step("destroy") /\ result'.tag = "Ok")
             => \A k \in DOMAIN registrations :
                   registrations[k].referrer = Some(call'.caller) /\ k # call'.caller
                      => /\ k \in DOMAIN registrations'
                         /\ registrations'[k] = registrations[k]]_vars

\* a stored referrer names an identity that destroyed its own record
C19_Witness ==
    /\ call.op = "destroy"
    /\ result.tag = "Ok"
    /\ \E k \in DOMAIN registrations :
          /\ registrations[k].referrer = Some(call.caller)
          /\ k # call.caller
          /\ ~Registered(call.caller)
====
